---- MODULE Spec2Model ----
(***************************************************************************)
(* Filterize: the signal-fusion credibility engine.                        *)
(*                                                                         *)
(* Four parts of the repository are modelled, each with its own            *)
(* specification over the shared variables:                                *)
(*   Spec        the detectors (ai_detection.py, media_detection.py,       *)
(*               enhanced_media_detection.py) and the text result cache    *)
(*   SpecServer  the analyze handlers of server.py and server_fixed.py     *)
(*               with their provider caches and retry helpers              *)
(*   SpecRouter  MultiAIAgent of ai_providers.py and its callers           *)
(*   SpecFact    InternetFactChecker.fact_check_content                    *)
(*                                                                         *)
(* Probabilities and confidences are integers in thousandths (1.0 = 1000). *)
(***************************************************************************)
EXTENDS Integers, Sequences, FiniteSets, TLC

VARIABLES
    detection_cache,  \* AIContentDetector.detection_cache: text -> result dict
    firstReturn,      \* text -> the value the first analyze_ai_content call returned
    last,             \* the last detector operation and the value it returned
    srv,              \* the analyze request being served, and the module serving it
    provider_cache,   \* the cache files: <<module, provider, text>> -> response, mtime
    clock,            \* time.time() in seconds, and how often it was advanced
    rtr,              \* the last MultiAIAgent operation and its outcome
    keys,             \* the api_key attribute of the providers that need one
    env,              \* the providers whose credential is in os.environ now
    fc,               \* the last fact_check_content call and its result
    FAST_FALLBACK,    \* fast_integrated_server: the module-level fallback dict
    components_loaded, \* fast_integrated_server: which components were imported
    requests,         \* fast_integrated_server: the fact-check requests in flight
    response_cache,   \* instant_server: cache_key -> the cached result
    cache_lock,       \* instant_server: the thread that holds cache_lock, or 0
    analyses,         \* instant_server: the instant_ai_analysis call of each thread
    health,           \* instant_server: the cache_size the last /health call read
    metrics,          \* server: the metrics dict, key -> count
    incs              \* server: the _inc_metric call of each request thread

detVars == <<detection_cache, firstReturn, last>>
srvVars == <<srv, provider_cache, clock>>
rtrVars == <<rtr, keys, env>>
fcVars == <<fc>>
fastVars == <<FAST_FALLBACK, components_loaded, requests>>
instVars == <<response_cache, cache_lock, analyses, health>>
metVars == <<metrics, incs>>
vars == <<detection_cache, firstReturn, last, srv, provider_cache, clock, rtr, keys, env, fc,
          FAST_FALLBACK, components_loaded, requests,
          response_cache, cache_lock, analyses, health, metrics, incs>>

(***************************************************************************)
(* Helpers on sequences and integers.                                      *)
(***************************************************************************)
Min(a, b) == IF a < b THEN a ELSE b
Max(a, b) == IF a > b THEN a ELSE b
Range(s) == {s[i] : i \in 1..Len(s)}
Contains(s, x) == \E i \in 1..Len(s) : s[i] = x
Count(s, x) == Cardinality({i \in 1..Len(s) : s[i] = x})

(***************************************************************************)
(* Bounds of the model.                                                    *)
(***************************************************************************)
\* texts the detection cache may hold at once
MaxCached == 1
\* flags that analyze_url calls may add to one cached result
MaxUrlFlags == 2

(***************************************************************************)
(* ai_detection.py: the text detectors.                                    *)
(*                                                                         *)
(* A text is represented by what the four regex/word-count detectors       *)
(* compute from it: whether the watermark, perplexity and reward detectors *)
(* fire and the flags the linguistic-pattern detector collects.            *)
(***************************************************************************)
LingOutcomes ==
    { <<"perfect_grammar">>,
      <<"repetitive_structure", "perfect_grammar">> }

Texts == [wm : BOOLEAN, px : BOOLEAN, rw : BOOLEAN, lp : LingOutcomes]

WatermarkWeight == 400
PerplexityWeight == 300
RewardWeight == 200
LinguisticWeight == 100
TextMethodCount == 4

_detect_watermarks(text) == [detected |-> text.wm]
_analyze_perplexity(text) == [indicates_ai |-> text.px]
_calculate_reward_score(text) == [indicates_ai |-> text.rw]

\* indicates_ai is set only with 'overly_formal' and 'repetitive_structure';
\* 'perfect_grammar' is collected without setting it.
_analyze_linguistic_patterns(text) ==
    [indicates_ai |-> Contains(text.lp, "overly_formal")
                        \/ Contains(text.lp, "repetitive_structure"),
     flags |-> text.lp]

\* The three probability bands of the explanation templates; the text of the
\* middle and upper band joins the detection methods of the moment.
LowBand == 300
HighBand == 700
Explain(lowName, result) ==
    IF result.ai_probability < LowBand
    THEN [band |-> lowName, methods |-> <<>>]
    ELSE IF result.ai_probability < HighBand
    THEN [band |-> "some_indicators", methods |-> result.detection_methods]
    ELSE [band |-> "high_probability", methods |-> result.detection_methods]

_generate_explanation(result) == Explain("human_written", result)

\* One detector step of the aggregation: add the weight, the method name and
\* the flags when the detector fired.
Fire(result, fired, weight, method, flags) ==
    IF fired
    THEN [result EXCEPT !.ai_probability = @ + weight,
                        !.detection_methods = Append(@, method),
                        !.flags = @ \o flags]
    ELSE result

EmptyResult ==
    [error |-> FALSE, ai_probability |-> 0, confidence |-> 0,
     detection_methods |-> <<>>, flags |-> <<>>,
     explanation |-> [band |-> "", methods |-> <<>>]]

ErrorResult == [EmptyResult EXCEPT !.error = TRUE]

\* probability normalisation and confidence of analyze_ai_content
ClampProbability(p) == Min(1000, p)
MethodConfidence(result, total) == (Len(result.detection_methods) * 1000) \div total

\* The body of analyze_ai_content on a cache miss.
ComputeTextResult(text) ==
    LET r1 == Fire(EmptyResult, _detect_watermarks(text).detected,
                   WatermarkWeight, "watermark", <<"watermark_detected">>)
        r2 == Fire(r1, _analyze_perplexity(text).indicates_ai,
                   PerplexityWeight, "perplexity", <<"low_perplexity">>)
        r3 == Fire(r2, _calculate_reward_score(text).indicates_ai,
                   RewardWeight, "reward_model", <<"high_reward_score">>)
        lp == _analyze_linguistic_patterns(text)
        r4 == Fire(r3, lp.indicates_ai, LinguisticWeight, "linguistic_patterns", lp.flags)
        r5 == [r4 EXCEPT !.ai_probability = ClampProbability(@)]
        r6 == [r5 EXCEPT !.confidence = MethodConfidence(r5, TextMethodCount)]
    IN  [r6 EXCEPT !.explanation = _generate_explanation(r6)]

\* detection_cache after analyze_ai_content(text): the cached dict is returned
\* as it is on a hit and stored on a miss.
CacheAfterLookup(cache, text) ==
    IF text \in DOMAIN cache THEN cache ELSE (text :> ComputeTextResult(text)) @@ cache

(***************************************************************************)
(* media_detection.py: MediaAIDetector.                                    *)
(*                                                                         *)
(* An image is represented by the flags its EXIF/filename scan and its     *)
(* pixel scan collect, its dimensions and its size in bytes; "readable" is *)
(* whether PIL opens it.                                                   *)
(***************************************************************************)
MetaOutcomes == { <<>>, <<"missing_camera_metadata">> }
Dimensions == { <<512, 512>>, <<600, 400>> }
FileSizes == { 40000, 75000, 6000000 }

Images == [readable : {TRUE}, meta : MetaOutcomes, symmetric : BOOLEAN,
           dims : Dimensions, bytes : FileSizes]
            \cup [readable : {FALSE}, meta : {<<>>}, symmetric : {FALSE},
                  dims : {<<600, 400>>}, bytes : {40000}]

MetadataWeight == 400
VisualWeight == 300
StatisticalWeight == 200
CompressionWeight == 100
ImageMethodCount == 4

\* every flag of the metadata scan is appended together with indicates_ai = True
_analyze_image_metadata(image) ==
    [indicates_ai |-> image.meta # <<>>, flags |-> image.meta]

\* 'perfect_symmetry' sets indicates_ai; the aspect-ratio flag (width/height
\* within 0.1 of 1.0 or of 1.5 for the two shapes above) is appended without
\* setting it.
_analyze_visual_patterns(image) ==
    LET symmetry == IF image.symmetric THEN <<"perfect_symmetry">> ELSE <<>>
        ratio == IF image.dims[1] = image.dims[2] THEN <<"ai_common_aspect_ratio_1.0">>
                 ELSE IF 2 * image.dims[1] = 3 * image.dims[2]
                 THEN <<"ai_common_aspect_ratio_1.5">>
                 ELSE <<>>
    IN  [indicates_ai |-> image.symmetric, flags |-> symmetry \o ratio]

common_ai_sizes ==
    { <<512, 512>>, <<1024, 1024>>, <<768, 768>>, <<512, 768>>, <<768, 512>>,
      <<1024, 768>>, <<768, 1024>> }

_analyze_image_statistics(image) ==
    IF image.dims \in common_ai_sizes
    THEN [indicates_ai |-> TRUE, flags |-> <<"ai_standard_size">>]
    ELSE [indicates_ai |-> FALSE, flags |-> <<>>]

_analyze_compression_artifacts(file_size) ==
    LET sizeFlags == IF file_size < 100000 THEN <<"low_file_size">>
                     ELSE IF file_size > 5000000 THEN <<"high_file_size">>
                     ELSE <<>>
        typical == 50000 < file_size /\ file_size < 200000
    IN  [indicates_ai |-> typical,
         flags |-> IF typical THEN Append(sizeFlags, "ai_typical_compression")
                   ELSE sizeFlags]

_generate_image_explanation(result) == Explain("authentic_image", result)

\* analyze_image: the error result when PIL cannot open the bytes
analyze_image(image) ==
    IF ~image.readable THEN ErrorResult
    ELSE
    LET md == _analyze_image_metadata(image)
        vs == _analyze_visual_patterns(image)
        st == _analyze_image_statistics(image)
        cp == _analyze_compression_artifacts(image.bytes)
        r1 == Fire(EmptyResult, md.indicates_ai, MetadataWeight, "metadata", md.flags)
        r2 == Fire(r1, vs.indicates_ai, VisualWeight, "visual_patterns", vs.flags)
        r3 == Fire(r2, st.indicates_ai, StatisticalWeight, "statistical", st.flags)
        r4 == Fire(r3, cp.indicates_ai, CompressionWeight, "compression", cp.flags)
        r5 == [r4 EXCEPT !.ai_probability = Min(1000, @)]
        r6 == [r5 EXCEPT !.confidence = MethodConfidence(r5, ImageMethodCount)]
    IN  [r6 EXCEPT !.explanation = _generate_image_explanation(r6)]

\* A video file: whether os.path.getsize finds it, whether it is under 1 MB
\* and whether its name holds one of the ai_patterns.
Videos == [found : BOOLEAN, small : BOOLEAN, named : BOOLEAN]

SmallVideoWeight == 200
VideoNameWeight == 300
VideoMethodCount == 3

_generate_video_explanation(result) == Explain("authentic_video", result)

analyze_video(video) ==
    IF ~video.found THEN ErrorResult
    ELSE
    LET r1 == Fire(EmptyResult, video.small, SmallVideoWeight, "file_analysis",
                   <<"suspiciously_small">>)
        r2 == Fire(r1, video.named, VideoNameWeight, "filename",
                   <<"filename_indicator">>)
        r3 == [r2 EXCEPT !.confidence = MethodConfidence(r2, VideoMethodCount)]
    IN  [r3 EXCEPT !.explanation = _generate_video_explanation(r3)]

\* A fetched URL: whether the request succeeded, the kind of its content
\* type, the text _extract_text_from_html returns, the image it holds and the
\* flags _analyze_url_patterns collects from the domain and the HTML.
UrlFlagOutcomes == { <<>>, <<"ai_keyword_ai-generated">> }
UrlPatternBoost == 200

_analyze_url_patterns(url) ==
    [indicates_ai |-> url.urlflags # <<>>, flags |-> url.urlflags]

UrlImages ==
    { [readable |-> TRUE, meta |-> <<"missing_camera_metadata">>, symmetric |-> TRUE,
       dims |-> <<512, 512>>, bytes |-> 75000],
      [readable |-> FALSE, meta |-> <<>>, symmetric |-> FALSE,
       dims |-> <<600, 400>>, bytes |-> 40000] }

Urls ==
    [kind : {"html"}, text : Texts, urlflags : UrlFlagOutcomes]
    \cup [kind : {"image"}, image : UrlImages]
    \cup [kind : {"other", "unreachable"}]

\* the cached text result after analyze_url extended, in place, the flags and
\* detection_methods lists it shares with its own result
UrlMutation(cached, ua) ==
    IF ua.indicates_ai
    THEN [cached EXCEPT
            !.flags = @ \o ua.flags,
            !.detection_methods = IF Contains(@, "url_patterns") THEN @
                                  ELSE Append(@, "url_patterns")]
    ELSE cached

\* the probability analyze_url reports when the URL patterns indicate AI
UrlProbabilityUnclamped(p) == p + UrlPatternBoost
UrlProbability(p) == Min(1000, p + UrlPatternBoost)

\* the result of analyze_url on an HTML page, given the text result dict as
\* analyze_url left it
UrlResult(cachedAfter, ua) ==
    [cachedAfter EXCEPT
        !.ai_probability = IF ua.indicates_ai THEN UrlProbability(@) ELSE @]

(***************************************************************************)
(* enhanced_media_detection.py: EnhancedAIImageDetector.                   *)
(*                                                                         *)
(* An image is represented by the confidence each of the four enhanced     *)
(* detectors computes for it and by the sum of the indicator terms of      *)
(* _calculate_realistic_ai_probability; the two random.uniform draws are   *)
(* inputs of the operation.                                                *)
(***************************************************************************)
metadata_weight == 300
visual_weight == 250
statistical_weight == 200
compression_weight == 150
MaxConfidence == 950
ConfidenceFloor == 200
EnhancedMethodCount == 4

EImages ==
    [state : {"ok"}, indicators : {0, 1350},
     metadata : {200}, visual : {0}, statistical : {0}, compression : {0}]
    \cup [state : {"ok"}, indicators : {0, 1350},
          metadata : {1000}, visual : {500}, statistical : {500}, compression : {700}]
    \cup [state : {"too_small", "unreadable"}, indicators : {0},
          metadata : {200}, visual : {0}, statistical : {0}, compression : {0}]

\* random.uniform(0.15, 0.45) and random.uniform(-0.15, 0.15)
Baselines == {150, 450}
Variances == {-150, 150}

_calculate_realistic_ai_probability(image, baseline) ==
    Min(800, Max(100, baseline + image.indicators))

_analyze_metadata_enhanced(image) ==
    [indicates_ai |-> image.metadata > 300, confidence |-> Min(1000, image.metadata),
     flags |-> IF image.metadata > 200
               THEN <<"ai_filename_generated", "ai_typical_compression_ratio">>
               ELSE <<"ai_typical_compression_ratio">>]
_analyze_visual_patterns_enhanced(image) ==
    [indicates_ai |-> image.visual > 400, confidence |-> Min(1000, image.visual),
     flags |-> IF image.visual > 0 THEN <<"unnatural_symmetry">> ELSE <<>>]
_analyze_statistical_anomalies(image) ==
    [indicates_ai |-> image.statistical > 400, confidence |-> Min(1000, image.statistical),
     flags |-> IF image.statistical > 0 THEN <<"statistical_anomaly">> ELSE <<>>]
_analyze_compression_enhanced(image) ==
    [indicates_ai |-> image.compression > 300, confidence |-> Min(1000, image.compression),
     flags |-> IF image.compression > 0 THEN <<"ai_typical_compression", "ai_quality_range">>
               ELSE <<>>]

_generate_enhanced_explanation(result) ==
    IF result.ai_probability < 200 THEN [band |-> "authentic_image", methods |-> <<>>]
    ELSE IF result.ai_probability < 500
    THEN [band |-> "some_indicators", methods |-> result.detection_methods]
    ELSE IF result.ai_probability < 800
    THEN [band |-> "high_probability", methods |-> result.detection_methods]
    ELSE [band |-> "very_high_probability", methods |-> result.detection_methods]

\* the two clamps of the probability and the confidence of analyze_image_enhanced
Clamp01(p) == Max(0, Min(1000, p))
EnhancedConfidence(result) ==
    Min(MaxConfidence,
        (Len(result.detection_methods) * 1000) \div EnhancedMethodCount + ConfidenceFloor)

analyze_image_enhanced(image, baseline, variance) ==
    IF image.state # "ok" THEN ErrorResult
    ELSE
    LET base == _calculate_realistic_ai_probability(image, baseline)
        md == _analyze_metadata_enhanced(image)
        vs == _analyze_visual_patterns_enhanced(image)
        st == _analyze_statistical_anomalies(image)
        cp == _analyze_compression_enhanced(image)
        r1 == Fire(EmptyResult, md.indicates_ai,
                   (md.confidence * metadata_weight) \div 1000, "enhanced_metadata", md.flags)
        r2 == Fire(r1, vs.indicates_ai,
                   (vs.confidence * visual_weight) \div 1000, "advanced_visual", vs.flags)
        r3 == Fire(r2, st.indicates_ai,
                   (st.confidence * statistical_weight) \div 1000, "statistical_anomaly",
                   st.flags)
        r4 == Fire(r3, cp.indicates_ai,
                   (cp.confidence * compression_weight) \div 1000, "enhanced_compression",
                   cp.flags)
        r5 == [r4 EXCEPT !.ai_probability = Clamp01(base + @)]
        r6 == [r5 EXCEPT !.ai_probability = Clamp01(@ + variance)]
        r7 == [r6 EXCEPT !.confidence = EnhancedConfidence(r6)]
    IN  [r7 EXCEPT !.explanation = _generate_enhanced_explanation(r7)]

(***************************************************************************)
(* The detector operations.                                                *)
(***************************************************************************)
EmptyMap == [x \in {} |-> x]

DetInit ==
    /\ detection_cache = EmptyMap
    /\ firstReturn = EmptyMap
    /\ last = [op |-> "none"]

\* the model holds at most MaxCached texts in the cache
CanCache(text) ==
    text \in DOMAIN detection_cache \/ Cardinality(DOMAIN detection_cache) < MaxCached

RecordFirst(text, value) ==
    IF text \in DOMAIN firstReturn THEN firstReturn ELSE (text :> value) @@ firstReturn

\* ai_detection.analyze_ai_content(text)
AnalyzeAiContent(text) ==
    /\ CanCache(text)
    /\ detection_cache' = CacheAfterLookup(detection_cache, text)
    /\ firstReturn' = RecordFirst(text, detection_cache'[text])
    /\ last' = [op |-> "analyze_ai_content", text |-> text,
                hit |-> text \in DOMAIN detection_cache,
                result |-> detection_cache'[text]]
    /\ UNCHANGED <<srvVars, rtrVars, fcVars, fastVars, instVars, metVars>>

\* MediaAIDetector.analyze_url(url) on an HTML page
AnalyzeUrlHtml(url) ==
    LET looked == CacheAfterLookup(detection_cache, url.text)
        ua == _analyze_url_patterns(url)
        after == UrlMutation(looked[url.text], ua)
    IN  /\ url.kind = "html"
        /\ CanCache(url.text)
        /\ Len(after.flags) <= Len(ComputeTextResult(url.text).flags) + MaxUrlFlags
        /\ detection_cache' = [looked EXCEPT ![url.text] = after]
        /\ firstReturn' = RecordFirst(url.text, looked[url.text])
        /\ last' = [op |-> "analyze_url", text |-> url.text,
                    hit |-> url.text \in DOMAIN detection_cache,
                    result |-> UrlResult(after, ua)]
        /\ UNCHANGED <<srvVars, rtrVars, fcVars, fastVars, instVars, metVars>>

\* MediaAIDetector.analyze_url(url) on an image, on another content type and
\* on a URL that cannot be fetched
AnalyzeUrlOther(url) ==
    /\ url.kind # "html"
    /\ last' = [op |-> "analyze_url",
                result |->
                    CASE url.kind = "image" -> analyze_image(url.image)
                      [] url.kind = "other" ->
                            [EmptyResult EXCEPT
                                !.flags = <<"unsupported_content_type">>,
                                !.explanation = [band |-> "unsupported", methods |-> <<>>]]
                      [] OTHER -> ErrorResult]
    /\ UNCHANGED <<detection_cache, firstReturn, srvVars, rtrVars, fcVars, fastVars, instVars, metVars>>

\* MediaAIDetector.analyze_image(image_data, filename)
AnalyzeImage(image) ==
    /\ last' = [op |-> "analyze_image", result |-> analyze_image(image)]
    /\ UNCHANGED <<detection_cache, firstReturn, srvVars, rtrVars, fcVars, fastVars, instVars, metVars>>

\* MediaAIDetector.analyze_video(video_path)
AnalyzeVideo(video) ==
    /\ last' = [op |-> "analyze_video", result |-> analyze_video(video)]
    /\ UNCHANGED <<detection_cache, firstReturn, srvVars, rtrVars, fcVars, fastVars, instVars, metVars>>

\* EnhancedAIImageDetector.analyze_image_enhanced(image_data, filename)
AnalyzeImageEnhanced(image, baseline, variance) ==
    /\ last' = [op |-> "analyze_image_enhanced",
                result |-> analyze_image_enhanced(image, baseline, variance)]
    /\ UNCHANGED <<detection_cache, firstReturn, srvVars, rtrVars, fcVars, fastVars, instVars, metVars>>

\* two evaluations of the same image, each with its own random draws
AnalyzeImageEnhancedTwice(image, draws1, draws2) ==
    /\ last' = [op |-> "analyze_image_enhanced_twice",
                image |-> image,
                result |-> analyze_image_enhanced(image, draws1[1], draws1[2]),
                second |-> analyze_image_enhanced(image, draws2[1], draws2[2])]
    /\ UNCHANGED <<detection_cache, firstReturn, srvVars, rtrVars, fcVars, fastVars, instVars, metVars>>

EnhancedNext ==
    \/ \E image \in EImages, baseline \in Baselines, variance \in Variances :
            AnalyzeImageEnhanced(image, baseline, variance)
    \/ \E image \in EImages, draws1, draws2 \in Baselines \X Variances :
            AnalyzeImageEnhancedTwice(image, draws1, draws2)

DetNext ==
    \/ \E text \in Texts : AnalyzeAiContent(text)
    \/ \E url \in Urls : AnalyzeUrlHtml(url)
    \/ \E url \in Urls : AnalyzeUrlOther(url)
    \/ \E image \in Images : AnalyzeImage(image)
    \/ \E video \in Videos : AnalyzeVideo(video)
    \/ \E image \in EImages, baseline \in Baselines, variance \in Variances :
            AnalyzeImageEnhanced(image, baseline, variance)

(***************************************************************************)
(* server.py: the /api/analyze handler, one request at a time.             *)
(*                                                                         *)
(* srv.pc is the place of the request in the handler:                      *)
(*   idle -> local -> provider -> (attempt ...) -> finish -> done          *)
(* A provider response is "ok" (the legacy dict), "none" (None) or an      *)
(* exception, named by its cause.                                          *)
(***************************************************************************)
max_retries == 2
backoff == 600

SrvTexts == {"t1", "t2"}
Prefers == {"unset", "auto", "local", "provider", "heuristic"}
NoProvider == "unset"
\* AI_PROVIDER values: unset, registered names and a name that is not registered
EnvProviders == {NoProvider, "openai", "anthropic", "copilot", "bogus"}
KeyProviders == {"openai", "anthropic", "gemini"}
Registered == <<"openai", "anthropic", "gemini", "copilot", "specialized">>

TransientErrors == {"timeout"}
PermanentErrors == {"missing_credential", "bad_request", "unknown_provider"}

\* What analyze_text_with_provider(txt, provider=name) can do in one call:
\* an unregistered name raises ValueError; a provider without its key raises;
\* an HTTP call succeeds or fails; OpenAI's parsed JSON converts to the legacy
\* dict, the plain-text analysis of Anthropic and Gemini makes the conversion
\* raise (str has no .get), Copilot's success=False converts to None.
ProviderOutcomes(name) ==
    CASE ~Contains(Registered, name) -> {"unknown_provider"}
      [] name \in KeyProviders /\ name \notin keys -> {"missing_credential"}
      [] name = "openai" -> {"ok", "timeout", "bad_request"}
      [] name \in {"anthropic", "gemini"} -> {"unstructured", "timeout"}
      [] name = "copilot" -> {"none"}
      [] OTHER -> {"ok"}

NoResult == [source |-> "none"]

\* the retry test of _call_provider_with_retry after a failed attempt
ShouldRetry(attempt) == attempt <= max_retries

\* time.sleep(backoff * (2 ** (attempt - 1))), in milliseconds
BackoffDelay(attempt) == backoff * (2 ^ (attempt - 1))

\* the condition of stage 2 of the handler
WantsProviderAnyPrefer(r) == r.result = NoResult /\ r.provider # NoProvider
WantsProvider(r) ==
    \/ r.result = NoResult /\ r.provider # NoProvider
            /\ r.prefer \in {"unset", "auto", "provider"}
    \/ r.result = NoResult /\ r.prefer = "provider"

\* the age of the cache file a request looked at; NoAge when it saw none
NoAge == -1
CacheAge(module, provider, text) ==
    IF <<module, provider, text>> \in DOMAIN provider_cache
    THEN clock.now - provider_cache[<<module, provider, text>>].mtime
    ELSE NoAge

\* _load_cached: if time.time() - mtime > ttl: return None
ttl == 86400
AlwaysExpired(age) == TRUE
NeverExpired(age) == FALSE
Expired(age) == age > ttl

\* server_fixed: a file is used if time.time() - st_mtime < 300
fixed_ttl == 300
FixedFresh(age) == age < fixed_ttl

NewRequest ==
    [pc |-> "idle", module |-> "server", text |-> "", prefer |-> "unset", provider |-> NoProvider,
     result |-> NoResult, used |-> "heuristic", calls |-> 0, attempt |-> 0,
     failures |-> <<>>, slept |-> <<>>, raised |-> FALSE, stages |-> <<>>,
     status |-> 0, error |-> "", ai_detection |-> "", cache_age |-> NoAge,
     compared |-> <<>>, cache_fault |-> FALSE]

\* request.get_json fails: 400.
ReceiveInvalid ==
    /\ srv.pc \in {"idle", "done"}
    /\ srv' = [NewRequest EXCEPT !.pc = "done", !.status = 400,
                                 !.error = "invalid JSON payload"]
    /\ UNCHANGED <<provider_cache, clock, detVars, rtrVars, fcVars, fastVars, instVars, metVars>>

\* if not text, for the text data.get('content', '') gives
ContentNeverMissing(text) == FALSE
ContentMissing(text) == text = ""

\* 'content' is missing or empty: 400.  Otherwise the request starts with the
\* environment read at that moment.
Receive(text, prefer, provider) ==
    /\ srv.pc \in {"idle", "done"}
    /\ srv' =
        IF ContentMissing(text)
        THEN [NewRequest EXCEPT !.pc = "done", !.status = 400,
                                !.error = "content is required"]
        ELSE [NewRequest EXCEPT !.pc = "local", !.text = text, !.prefer = prefer,
                                !.provider = provider]
    /\ UNCHANGED <<provider_cache, clock, detVars, rtrVars, fcVars, fastVars, instVars, metVars>>

\* Stage 1: the optional local model.  installed: the lazy import works;
\* outcome: what analyze_text_local does.
LocalStage(installed, outcome) ==
    /\ srv.pc = "local"
    /\ srv' =
        IF installed /\ srv.prefer \in {"unset", "auto", "local"}
        THEN CASE outcome = "ok" ->
                    [srv EXCEPT !.pc = "provider", !.used = "local",
                                !.result = [source |-> "local"],
                                !.stages = Append(@, "local")]
               [] outcome = "none" ->
                    [srv EXCEPT !.pc = "provider", !.used = "local",
                                !.stages = Append(@, "local")]
               [] OTHER ->
                    [srv EXCEPT !.pc = "provider", !.stages = Append(@, "local")]
        ELSE [srv EXCEPT !.pc = "provider"]
    /\ UNCHANGED <<provider_cache, clock, detVars, rtrVars, fcVars, fastVars, instVars, metVars>>

\* Stage 2 up to the first attempt: the gate and _load_cached.  readable: the
\* cache file can be read.  Without a provider name _cache_key raises, which
\* the handler logs before it falls back.
ProviderStage(readable) ==
    /\ srv.pc = "provider"
    /\ srv' =
        IF ~WantsProvider(srv) THEN [srv EXCEPT !.pc = "finish"]
        ELSE IF srv.provider = NoProvider THEN [srv EXCEPT !.pc = "finish"]
        ELSE IF /\ <<srv.module, srv.provider, srv.text>> \in DOMAIN provider_cache
                /\ ~Expired(CacheAge(srv.module, srv.provider, srv.text))
                /\ readable
        THEN [srv EXCEPT !.pc = "finish", !.used = "provider",
                         !.result = [source |-> "cache"],
                         !.cache_age = CacheAge(srv.module, srv.provider, srv.text)]
        ELSE [srv EXCEPT !.pc = "attempt", !.attempt = 1,
                         !.cache_age = CacheAge(srv.module, srv.provider, srv.text),
                         !.cache_fault =
                            /\ <<srv.module, srv.provider, srv.text>> \in DOMAIN provider_cache
                            /\ ~readable]
    /\ UNCHANGED <<provider_cache, clock, detVars, rtrVars, fcVars, fastVars, instVars, metVars>>

\* what a returned response leaves in the cache file: server.py saves a
\* response that is a dict, server_fixed one that is truthy
AnyResponseCached(outcome) == TRUE
Cached(outcome) == outcome = "ok"

CacheAfterResponse(outcome, writable) ==
    IF writable /\ Cached(outcome)
    THEN (<<srv.module, srv.provider, srv.text>>
                :> [source |-> IF outcome = "ok" THEN "provider" ELSE outcome,
                    mtime |-> clock.now])
            @@ provider_cache
    ELSE provider_cache

\* One turn of the retry loop: the provider call and what follows it.
\* writable: the cache file can be written.
Attempt(outcome, writable) ==
    /\ srv.pc = "attempt"
    /\ outcome \in ProviderOutcomes(srv.provider)
    /\ UNCHANGED <<clock, detVars, rtrVars, fcVars, fastVars, instVars, metVars>>
    /\ LET called == [srv EXCEPT !.calls = @ + 1,
                                 !.stages = Append(@, "provider")]
       IN  CASE outcome = "ok" ->
                    /\ srv' = [called EXCEPT !.pc = "finish", !.used = "provider",
                                             !.result = [source |-> "provider"]]
                    /\ provider_cache' = CacheAfterResponse(outcome, writable)
             [] outcome = "none" ->
                    /\ srv' = [called EXCEPT !.pc = "finish", !.used = "provider"]
                    /\ provider_cache' = CacheAfterResponse(outcome, writable)
             [] OTHER ->
                    /\ srv' =
                        IF ShouldRetry(srv.attempt)
                        THEN [called EXCEPT !.failures = Append(@, outcome),
                                            !.slept = Append(@, BackoffDelay(srv.attempt)),
                                            !.attempt = @ + 1]
                        ELSE [called EXCEPT !.failures = Append(@, outcome),
                                            !.raised = TRUE, !.pc = "finish"]
                    /\ UNCHANGED provider_cache

\* 'used' after stage 3 has run, given what the earlier stages left in it
UsedKept(used) == used
HeuristicUsed(used) == "heuristic"

\* Stage 3 and the end of the handler: simple_analyze when there is no result
\* yet, the 'used' field, the AI detection attachment, the response.  An
\* exception of simple_analyze reaches the handler's outer except: 500.
Finish(heuristic, detection) ==
    /\ srv.pc = "finish"
    /\ srv' =
        IF srv.result = NoResult /\ heuristic = "raise"
        THEN [srv EXCEPT !.pc = "done", !.status = 500, !.error = "analysis failed",
                         !.stages = Append(@, "heuristic")]
        ELSE IF srv.result = NoResult
        THEN [srv EXCEPT !.pc = "done", !.status = 200, !.used = HeuristicUsed(@),
                         !.result = [source |-> "heuristic"],
                         !.ai_detection = detection,
                         !.stages = Append(@, "heuristic")]
        ELSE [srv EXCEPT !.pc = "done", !.status = 200, !.ai_detection = detection]
    /\ UNCHANGED <<provider_cache, clock, detVars, rtrVars, fcVars, fastVars, instVars, metVars>>

(***************************************************************************)
(* server_fixed.py: the /analyze handler.  The provider comes with the     *)
(* request; the stages run cache, local model, heuristic, provider, final  *)
(* fallback.                                                               *)
(***************************************************************************)
\* the loop test of server_fixed's _call_provider_with_retry:
\* for attempt in range(1, max_retries + 1)
FixedLoopContinues(attempt) == attempt < max_retries

\* 'text' is missing or blank: 400
FixedReceive(text, prefer, provider) ==
    /\ srv.pc \in {"idle", "done"}
    /\ srv' =
        IF text = ""
        THEN [NewRequest EXCEPT !.module = "server_fixed", !.pc = "done",
                                !.status = 400,
                                !.error = "Text field is required and cannot be empty"]
        ELSE [NewRequest EXCEPT !.module = "server_fixed", !.pc = "fixed_cache",
                                !.text = text, !.prefer = prefer,
                                !.provider = provider]
    /\ UNCHANGED <<provider_cache, clock, detVars, rtrVars, fcVars, fastVars, instVars, metVars>>

\* The cache check.  readable: the file loads.  A hit is returned as the
\* response.
FixedCache(readable) ==
    /\ srv.pc = "fixed_cache"
    /\ srv' =
        IF /\ srv.provider # NoProvider
           /\ <<srv.module, srv.provider, srv.text>> \in DOMAIN provider_cache
           /\ FixedFresh(CacheAge(srv.module, srv.provider, srv.text))
           /\ readable
        THEN [srv EXCEPT !.pc = "done", !.status = 200,
                         !.result = [source |-> "cache"],
                         !.cache_age = CacheAge(srv.module, srv.provider, srv.text)]
        ELSE [srv EXCEPT !.pc = "fixed_local",
                         !.cache_age = IF srv.provider = NoProvider THEN NoAge
                                       ELSE CacheAge(srv.module, srv.provider, srv.text)]
    /\ UNCHANGED <<provider_cache, clock, detVars, rtrVars, fcVars, fastVars, instVars, metVars>>

\* The local model and the first heuristic stage, then the provider gate.
\* Without a provider the retry helper is not defined, and the NameError is
\* caught with the provider's other exceptions.
FixedLocal(local, heuristic) ==
    /\ srv.pc = "fixed_local"
    /\ LET runsLocal == srv.prefer \in {"unset", "auto", "local"}
                            \/ srv.provider = NoProvider
           afterLocal ==
               IF runsLocal
               THEN IF local = "ok"
                    THEN [srv EXCEPT !.result = [source |-> "local"],
                                     !.stages = Append(@, "local")]
                    ELSE [srv EXCEPT !.stages = Append(@, "local")]
               ELSE srv
           afterHeuristic ==
               IF afterLocal.result = NoResult
                    /\ srv.prefer \in {"unset", "auto", "heuristic"}
               THEN IF heuristic = "ok"
                    THEN [afterLocal EXCEPT !.result = [source |-> "heuristic"],
                                            !.stages = Append(@, "heuristic")]
                    ELSE [afterLocal EXCEPT !.stages = Append(@, "heuristic")]
               ELSE afterLocal
       IN  srv' =
            IF WantsProvider(afterHeuristic) /\ srv.provider # NoProvider
            THEN [afterHeuristic EXCEPT !.pc = "fixed_attempt", !.attempt = 1]
            ELSE [afterHeuristic EXCEPT !.pc = "fixed_finish"]
    /\ UNCHANGED <<provider_cache, clock, detVars, rtrVars, fcVars, fastVars, instVars, metVars>>

\* One turn of server_fixed's retry loop.  A falsy response goes to the next
\* turn without a sleep; an exception sleeps the constant backoff unless the
\* turn is the last; after the last turn the last exception, if any, is raised.
FixedAttempt(outcome, writable) ==
    /\ srv.pc = "fixed_attempt"
    /\ outcome \in ProviderOutcomes(srv.provider)
    /\ UNCHANGED <<clock, detVars, rtrVars, fcVars, fastVars, instVars, metVars>>
    /\ LET called == [srv EXCEPT !.calls = @ + 1,
                                 !.stages = Append(@, "provider")]
           failed == IF outcome = "none" THEN called
                     ELSE [called EXCEPT !.failures = Append(@, outcome)]
       IN  IF outcome = "ok"
           THEN /\ srv' = [called EXCEPT !.pc = "fixed_finish",
                                         !.result = [source |-> "provider"]]
                /\ provider_cache' = CacheAfterResponse(outcome, writable)
           ELSE /\ srv' =
                    IF FixedLoopContinues(srv.attempt)
                    THEN [failed EXCEPT !.attempt = @ + 1,
                                        !.slept = IF outcome = "none" THEN @
                                                  ELSE Append(@, backoff)]
                    ELSE [failed EXCEPT !.pc = "fixed_finish",
                                        !.raised = failed.failures # <<>>]
                /\ provider_cache' =
                    IF ~FixedLoopContinues(srv.attempt) /\ failed.failures = <<>>
                    THEN CacheAfterResponse(outcome, writable)
                    ELSE provider_cache

\* the providers of the comparison block: the first two of the list without
\* the request's provider
OtherProviders(provider) ==
    LET keep(n) == n # provider
    IN  SubSeq(SelectSeq(<<"openai", "claude", "gemini">>, keep), 1, 2)

\* The final fallback and the response: the heuristic score, or the default
\* result when the heuristic raises; then analyze_text_with_provider is called
\* for each of the comparison providers; the attachments are each in a try.
FixedFinish(heuristic, detection) ==
    /\ srv.pc = "fixed_finish"
    /\ srv' =
        IF srv.result # NoResult
        THEN [srv EXCEPT !.pc = "done", !.status = 200, !.ai_detection = detection,
                         !.compared = IF srv.provider = NoProvider THEN <<>>
                                      ELSE OtherProviders(srv.provider)]
        ELSE IF heuristic = "ok"
        THEN [srv EXCEPT !.pc = "done", !.status = 200,
                         !.result = [source |-> "heuristic"],
                         !.ai_detection = detection,
                         !.stages = Append(@, "heuristic"),
                         !.compared = IF srv.provider = NoProvider THEN <<>>
                                      ELSE OtherProviders(srv.provider)]
        ELSE [srv EXCEPT !.pc = "done", !.status = 200,
                         !.result = [source |-> "default"],
                         !.ai_detection = detection,
                         !.stages = Append(@, "heuristic"),
                         !.compared = IF srv.provider = NoProvider THEN <<>>
                                      ELSE OtherProviders(srv.provider)]
    /\ UNCHANGED <<provider_cache, clock, detVars, rtrVars, fcVars, fastVars, instVars, metVars>>

SrvNext ==
    \/ ReceiveInvalid
    \/ \E text \in SrvTexts \cup {""}, prefer \in Prefers, provider \in EnvProviders :
            Receive(text, prefer, provider)
    \/ \E installed \in BOOLEAN, outcome \in {"ok", "none", "raise"} :
            LocalStage(installed, outcome)
    \/ \E readable \in BOOLEAN : ProviderStage(readable)
    \/ \E outcome \in {"ok", "none", "timeout", "bad_request", "unstructured",
                       "missing_credential", "unknown_provider"},
          writable \in BOOLEAN :
            Attempt(outcome, writable)
    \/ \E heuristic \in {"ok", "raise"}, detection \in {"attached", "unavailable"} :
            Finish(heuristic, detection)
    \/ \E text \in SrvTexts \cup {""}, prefer \in Prefers, provider \in EnvProviders :
            FixedReceive(text, prefer, provider)
    \/ \E readable \in BOOLEAN : FixedCache(readable)
    \/ \E local \in {"ok", "none", "raise"}, heuristic \in {"ok", "raise"} :
            FixedLocal(local, heuristic)
    \/ \E outcome \in {"ok", "none", "timeout", "bad_request", "unstructured",
                       "missing_credential", "unknown_provider"},
          writable \in BOOLEAN :
            FixedAttempt(outcome, writable)
    \/ \E heuristic \in {"ok", "raise"}, detection \in {"attached", "absent"} :
            FixedFinish(heuristic, detection)

(***************************************************************************)
(* Time.  The cache files keep their mtime while time.time() moves on.     *)
(***************************************************************************)
MaxAdvances == 2
AdvanceSteps == {1, fixed_ttl, ttl}

Advance(seconds) ==
    /\ clock.advances < MaxAdvances
    /\ clock' = [now |-> clock.now + seconds, advances |-> clock.advances + 1]
    /\ UNCHANGED <<srv, provider_cache, detVars, rtrVars, fcVars, fastVars, instVars, metVars>>

CacheNext ==
    \/ \E seconds \in AdvanceSteps : Advance(seconds)
    \/ \E prefer \in {"auto", "provider"} : Receive("t1", prefer, "openai")
    \/ LocalStage(FALSE, "none")
    \/ \E readable \in BOOLEAN : ProviderStage(readable)
    \/ \E outcome \in {"ok", "timeout"} : Attempt(outcome, TRUE)
    \/ Finish("ok", "attached")
    \/ \E prefer \in {"auto", "provider"} : FixedReceive("t1", prefer, "openai")
    \/ \E readable \in BOOLEAN : FixedCache(readable)
    \/ \E heuristic \in {"ok", "raise"} : FixedLocal("none", heuristic)
    \/ \E outcome \in {"ok", "timeout"} : FixedAttempt(outcome, TRUE)
    \/ FixedFinish("ok", "attached")

(***************************************************************************)
(* ai_providers.py: MultiAIAgent and the callers that choose a provider.   *)
(*                                                                         *)
(* keys holds the providers whose api_key attribute is set.  Each          *)
(* operation leaves in rtr what was asked, the provider chosen, the        *)
(* providers called in order and the result.                               *)
(***************************************************************************)
ContentTypes == {"text", "image"}
Tasks == {"analysis", "fact_check", "summarize"}

\* BaseProvider.is_available of the five registered providers
is_available(name) ==
    CASE name \in KeyProviders -> name \in keys
      [] name = "copilot" -> FALSE
      [] OTHER -> TRUE

\* the first available provider of a list of names, if any
FirstAvailable(seq) ==
    IF \E i \in 1..Len(seq) : is_available(seq[i])
    THEN seq[CHOOSE i \in 1..Len(seq) :
                /\ is_available(seq[i])
                /\ \A j \in 1..(i - 1) : ~is_available(seq[j])]
    ELSE "none"

\* select_best_provider: the available list in registration order, then the
\* if/elif chain on task, content type and content keywords, then available[0]
select_best_provider(content_type, scientific, task) ==
    LET routed ==
            CASE task = "fact_check" -> FirstAvailable(<<"anthropic", "openai">>)
              [] content_type = "image" -> FirstAvailable(<<"openai", "gemini">>)
              [] task = "summarize" -> FirstAvailable(<<"gemini", "anthropic">>)
              [] scientific -> FirstAvailable(<<"anthropic">>)
              [] OTHER -> "none"
    IN  IF routed # "none" THEN routed ELSE FirstAvailable(Registered)

\* the providers the except branch of analyze_content may turn to
FallbackNames == <<"openai", "anthropic", "gemini">>

\* provider_used: None, the plain name, or f"{name} (fallback)"
NoneUsed == <<>>
PlainName(name) == <<name>>
FallbackName(name) == <<name, " (fallback)">>

\* The fallback loop from position i on, given the provider calls made so far
\* and which providers answer (every other call raises).
RECURSIVE FallbackLoop(_, _, _, _)
FallbackLoop(i, primary, answers, calls) ==
    IF i > Len(FallbackNames)
    THEN [calls |-> calls, served_by |-> "none", kind |-> "error",
          provider_used |-> PlainName(primary)]
    ELSE LET name == FallbackNames[i]
         IN  IF name = primary \/ ~is_available(name)
             THEN FallbackLoop(i + 1, primary, answers, calls)
             ELSE IF name \in answers
             THEN [calls |-> Append(calls, name), served_by |-> name,
                   kind |-> "response", provider_used |-> FallbackName(name)]
             ELSE FallbackLoop(i + 1, primary, answers, Append(calls, name))

\* MultiAIAgent.analyze_content, given which providers answer when called
analyze_content(content_type, scientific, task, answers) ==
    LET primary == select_best_provider(content_type, scientific, task)
    IN  IF primary = "none"
        THEN [calls |-> <<>>, served_by |-> "none", kind |-> "error",
              provider_used |-> NoneUsed]
        ELSE IF primary \in answers
        THEN [calls |-> <<primary>>, served_by |-> primary, kind |-> "response",
              provider_used |-> PlainName(primary)]
        ELSE FallbackLoop(1, primary, answers, <<primary>>)

\* SpecializedProvider.analyze runs the built-in algorithms and always
\* answers; the HTTP providers answer or raise.
AnswerSets == {a \cup {"specialized"} : a \in SUBSET KeyProviders}

\* multi_ai_agent.analyze_content(content, content_type, task): intelligent
\* routing, as /api/multi-ai-analyze without 'provider',
\* get_fact_check_analysis and get_content_summary call it
AnalyzeContent(content_type, scientific, task, answers) ==
    /\ rtr' = [op |-> "analyze_content", requested |-> "none",
               content_type |-> content_type, scientific |-> scientific, task |-> task,
               chosen |-> select_best_provider(content_type, scientific, task),
               available |-> {n \in Range(Registered) : is_available(n)},
               credentials |-> env]
              @@ analyze_content(content_type, scientific, task, answers)
    /\ UNCHANGED <<keys, env, detVars, srvVars, fcVars, fastVars, instVars, metVars>>

\* what the model behind a provider answers with: a JSON object or plain text
ResponseShapes == {"json_object", "plain_text"}

\* the 'analysis' value of a provider's successful result: OpenAIProvider
\* parses the text and wraps what does not parse as {'analysis': text};
\* AnthropicProvider and GeminiProvider pass the text on as a str;
\* SpecializedProvider builds a dict
ProviderAnalysis(name, shape) ==
    CASE name = "openai" -> IF shape = "json_object" THEN "dict" ELSE "wrapped_dict"
      [] name \in {"anthropic", "gemini"} -> "str"
      [] OTHER -> "dict"

\* the conversion to the legacy format: analysis.get(...) on the value
LegacyFormat(analysis) ==
    IF analysis \in {"dict", "wrapped_dict"} THEN "result" ELSE "AttributeError"

\* A caller names the provider: analyze_text_with_provider(text, provider=p)
\* and /api/multi-ai-analyze with 'provider'.  A registered provider is
\* called whether it is available or not; a name that is not registered is an
\* error (ValueError, 400).
AnalyzeWithProvider(endpoint, requested, answers, shape) ==
    /\ rtr' =
        [op |-> endpoint, requested |-> requested, shape |-> shape,
         legacy |-> IF ~Contains(Registered, requested) THEN "ValueError"
                    ELSE IF ~(is_available(requested) /\ requested \in answers)
                    THEN IF requested = "copilot" THEN "None" ELSE "RuntimeError"
                    ELSE IF endpoint = "analyze_text_with_provider"
                    THEN LegacyFormat(ProviderAnalysis(requested, shape))
                    ELSE "not_converted",
         content_type |-> "text", scientific |-> FALSE, task |-> "analysis",
         available |-> {n \in Range(Registered) : is_available(n)},
         credentials |-> env]
        @@ IF ~Contains(Registered, requested)
           THEN [chosen |-> "none", calls |-> <<>>, served_by |-> "none",
                 kind |-> "error", provider_used |-> NoneUsed]
           ELSE IF is_available(requested) /\ requested \in answers
           THEN [chosen |-> requested, calls |-> <<requested>>, served_by |-> requested,
                 kind |-> "response", provider_used |-> PlainName(requested)]
           ELSE IF requested = "copilot"
           THEN [chosen |-> requested, calls |-> <<requested>>, served_by |-> requested,
                 kind |-> "not_implemented", provider_used |-> PlainName(requested)]
           ELSE [chosen |-> requested, calls |-> <<requested>>, served_by |-> "none",
                 kind |-> "error", provider_used |-> NoneUsed]
    /\ UNCHANGED <<keys, env, detVars, srvVars, fcVars, fastVars, instVars, metVars>>

\* The environment changes while the process runs: a credential is set or
\* removed.  The provider objects of the global multi_ai_agent read
\* os.environ in __init__ only, so their api_key stays as it is.
ChangeCredential(name) ==
    /\ env' = IF name \in env THEN env \ {name} ELSE env \cup {name}
    /\ UNCHANGED <<rtr, keys, detVars, srvVars, fcVars, fastVars, instVars, metVars>>

RtrNext ==
    \/ \E name \in KeyProviders : ChangeCredential(name)
    \/ \E content_type \in ContentTypes, scientific \in BOOLEAN, task \in Tasks,
          answers \in AnswerSets :
            AnalyzeContent(content_type, scientific, task, answers)
    \/ \E endpoint \in {"analyze_text_with_provider", "multi_ai_analyze"},
          requested \in Range(Registered) \cup {"bogus"}, answers \in AnswerSets,
          shape \in ResponseShapes :
            AnalyzeWithProvider(endpoint, requested, answers, shape)

(***************************************************************************)
(* internet_fact_checker.py and internet_fact_checker_fixed.py.            *)
(*                                                                         *)
(* A content is the sequence of its claim-bearing sentences.  The          *)
(* simulated search answers from fact_database: a verdict True or False    *)
(* with its confidence (hundredths), or the default entry whose verdict is *)
(* None.                                                                   *)
(***************************************************************************)
MaxSentences == 3
MaxClaims == 5

\* the verdicts True, False and None
VerdictTrue == "True"
VerdictFalse == "False"
None == "None"
Sentences == {"the earth is flat", "vaccine safety is proven", "purple bananas discovered"}
fact_database ==
    [c \in Sentences |->
        CASE c = "the earth is flat" -> [verified |-> VerdictFalse, confidence |-> 95]
          [] c = "vaccine safety is proven" -> [verified |-> VerdictTrue, confidence |-> 90]
          [] OTHER -> [verified |-> None, confidence |-> 50]]

Contents == UNION {[1..n -> Sentences] : n \in 0..MaxSentences}
Variants == {"internet_fact_checker", "internet_fact_checker_fixed"}

\* the orders in which list(set(claims)) may enumerate the distinct claims
SetOrders(claims) ==
    LET S == Range(claims)
        n == Cardinality(S)
    IN  {o \in [1..n -> S] : \A a, b \in 1..n : o[a] = o[b] => a = b}

\* _extract_claims: list(set(claims))[:5] under one enumeration order
_extract_claims(order) == SubSeq(order, 1, Min(MaxClaims, Len(order)))

\* _analyze_search_results on the first simulated search result
_analyze_search_results(claim) == fact_database[claim]

\* _verify_claim.  In internet_fact_checker_fixed the call passes the claim
\* to a method that takes only the results, so every claim takes the except
\* branch.
_verify_claim(variant, claim) ==
    IF variant = "internet_fact_checker"
    THEN [claim |-> claim,
          verified |-> _analyze_search_results(claim).verified,
          confidence |-> _analyze_search_results(claim).confidence]
    ELSE [claim |-> claim, verified |-> VerdictFalse, confidence |-> 0]

\* Python truthiness of the 'verified' value: None and False are falsy
Truthy(v) == v = VerdictTrue

\* [r for r in verification_results if r.get('verified', False)]
verified_claims(results) ==
    LET keep(r) == Truthy(r.verified) IN SelectSeq(results, keep)

\* a filter that keeps only the results whose verdict is exactly False
disputed_only_false(results) ==
    LET keep(r) == r.verified = VerdictFalse IN SelectSeq(results, keep)

\* [r for r in verification_results if not r.get('verified', True)]
disputed_claims(results) ==
    LET keep(r) == ~Truthy(r.verified) IN SelectSeq(results, keep)

\* one result's share of total_confidence, in tenths so that (1 - c) * 30
\* is exact
ConfidenceShare(variant, r) ==
    IF variant = "internet_fact_checker"
    THEN IF Truthy(r.verified) THEN r.confidence * 10 ELSE (100 - r.confidence) * 3
    ELSE r.confidence * 10

RECURSIVE total_confidence(_, _)
total_confidence(variant, results) ==
    IF results = <<>> THEN 0
    ELSE ConfidenceShare(variant, Head(results)) + total_confidence(variant, Tail(results))

\* _calculate_fact_score
_calculate_fact_score(variant, results) ==
    LET average == total_confidence(variant, results) \div (10 * Len(results))
    IN  IF results = <<>> THEN 50
        ELSE IF verified_claims(results) = <<>> THEN Max(20, average)
        ELSE Min(95, Max(10, average))

\* fact_check_content on a text
FactCheckContent(variant, content, order) ==
    /\ order \in SetOrders(content)
    /\ LET claims == _extract_claims(order)
           results == [i \in 1..Len(claims) |-> _verify_claim(variant, claims[i])]
       IN  fc' = [op |-> "fact_check_content", variant |-> variant,
                  content |-> content, claims |-> claims,
                  verification_results |-> results,
                  fact_check_score |-> _calculate_fact_score(variant, results),
                  verified_claims |-> verified_claims(results),
                  disputed_claims |-> disputed_claims(results),
                  sources_checked |-> Len(results),
                  fallback_mode |-> FALSE]
    /\ UNCHANGED <<detVars, srvVars, rtrVars, fastVars, instVars, metVars>>

\* fact_check_content on a content that is not a string (a JSON list):
\* content.lower() raises and _fallback_analysis answers
FactCheckFallback(variant) ==
    /\ fc' = [op |-> "fact_check_content", variant |-> variant,
              content |-> "not_text", claims |-> <<>>,
              verification_results |-> <<>>,
              fact_check_score |-> 50,
              verified_claims |-> <<>>,
              disputed_claims |-> <<"not_text">>,
              sources_checked |-> 0,
              fallback_mode |-> TRUE]
    /\ UNCHANGED <<detVars, srvVars, rtrVars, fastVars, instVars, metVars>>

FcNext ==
    \/ \E variant \in Variants, content \in Contents :
        \E order \in SetOrders(content) : FactCheckContent(variant, content, order)
    \/ \E variant \in Variants : FactCheckFallback(variant)

(***************************************************************************)
(* internet_fact_checker.py: _rank_and_deduplicate_articles.               *)
(***************************************************************************)
MaxArticles == 3

Titles == {"Alpha", "alpha", "Beta"}
Scores == {90, 95}
Articles == [title : Titles, relevance_score : Scores]
ArticleLists == UNION {[1..n -> Articles] : n \in 0..MaxArticles}

\* str.lower() on the titles
Lower(title) ==
    CASE title = "Alpha" -> "alpha"
      [] title = "Beta" -> "beta"
      [] title = "The study is proven true today" -> "the study is proven true today"
      [] title = "THE STUDY IS PROVEN TRUE TODAY" -> "the study is proven true today"
      [] title = "Breaking the study is proven true today"
            -> "breaking the study is proven true today"
      [] title = "Water on Mars is a proven thing" -> "water on mars is a proven thing"
      [] title = "The evidence of the moon landing" -> "the evidence of the moon landing"
      [] OTHER -> title

\* the loop over the articles: the first article of each lower-cased title
RECURSIVE Deduplicate(_, _)
Deduplicate(articles, seen_titles) ==
    IF articles = <<>> THEN <<>>
    ELSE LET article == Head(articles)
             title_key == Lower(article.title)
         IN  IF title_key \in seen_titles
             THEN Deduplicate(Tail(articles), seen_titles)
             ELSE <<article>> \o Deduplicate(Tail(articles), seen_titles \cup {title_key})

\* list.sort(key=relevance_score, reverse=True) keeps an element that is
\* already in the list ahead of a later one of equal key
StaysAheadOnlyIfGreater(earlier, later) ==
    earlier.relevance_score > later.relevance_score
StaysAhead(earlier, later) ==
    earlier.relevance_score >= later.relevance_score

RECURSIVE InsertSorted(_, _)
InsertSorted(sorted, article) ==
    IF sorted = <<>> THEN <<article>>
    ELSE IF StaysAhead(Head(sorted), article)
    THEN <<Head(sorted)>> \o InsertSorted(Tail(sorted), article)
    ELSE <<article>> \o sorted

RECURSIVE SortByRelevance(_)
SortByRelevance(articles) ==
    IF articles = <<>> THEN <<>>
    ELSE InsertSorted(SortByRelevance(SubSeq(articles, 1, Len(articles) - 1)),
                      articles[Len(articles)])

_rank_and_deduplicate_articles(articles) ==
    SortByRelevance(Deduplicate(articles, {}))

\* the ranking applied to a list of found articles, and to its own output
RankArticles(articles) ==
    /\ fc' = [op |-> "_rank_and_deduplicate_articles",
              articles |-> articles,
              ranked |-> _rank_and_deduplicate_articles(articles),
              reranked |-> _rank_and_deduplicate_articles(
                                _rank_and_deduplicate_articles(articles))]
    /\ UNCHANGED <<detVars, srvVars, rtrVars, fastVars, instVars, metVars>>

RankNext == \E articles \in ArticleLists : RankArticles(articles)

(***************************************************************************)
(* fast_integrated_server.py: POST /api/fact-check, served by one thread   *)
(* per request (app.run(threaded=True)).                                   *)
(***************************************************************************)
MaxRequests == 2

Requests == 1..MaxRequests
FastContents == {"", "c1", "c2"}
Components == {"fact_checker", "ai_detection"}

\* timeouts of the two stages, and how long a stage's function can run (ms)
fact_checker_timeout == 2000
ai_detection_timeout == 1000
Durations == {500, 1500, 2500}
StageOutcomes == {"result", "empty", "exception"}

\* real_facts[0] of the template, and the line the handler writes there
\* (content[:50] of a content of fewer than 50 characters is the content)
TemplateFact == <<"Analysis completed in under 100ms">>
FastAnalysisOf(content) == <<"Fast analysis of", content>>

NewFastRequest ==
    [pc |-> "idle", content |-> "", result |-> None, analysis_method |-> None,
     ran |-> <<>>, status |-> 0, real_facts0 |-> None]

\* thread.join(timeout); thread.is_alive()
NeverAlive(duration, timeout) == FALSE
StillAlive(duration, timeout) == duration > timeout

\* run_with_timeout: <<data, error>>
run_with_timeout(outcome, duration, timeout) ==
    IF StillAlive(duration, timeout) THEN <<None, "Function timed out">>
    ELSE IF outcome = "exception" THEN <<None, "exception">>
    ELSE <<outcome, None>>

\* `if x and not error`
StageSucceeded(returned) == returned[1] = "result" /\ returned[2] = None

\* request.get_json, the content check, result = None, analysis_method = 'fallback'
FastReceive(r, content) ==
    /\ requests[r].pc = "idle"
    /\ requests' = [requests EXCEPT ![r] =
            IF content = ""
            THEN [@ EXCEPT !.pc = "done", !.status = 400]
            ELSE [@ EXCEPT !.pc = "fact_checker", !.content = content,
                           !.analysis_method = "fallback"]]
    /\ UNCHANGED <<FAST_FALLBACK, components_loaded, detVars, srvVars, rtrVars, fcVars, instVars, metVars>>

\* the internet fact checker under its timeout
FactCheckerStage(r, outcome, duration) ==
    /\ requests[r].pc = "fact_checker"
    /\ requests' = [requests EXCEPT ![r] =
            IF components_loaded["fact_checker"]
            THEN LET returned == run_with_timeout(outcome, duration, fact_checker_timeout)
                     stage == [name |-> "internet_fact_checker", duration |-> duration]
                 IN  IF StageSucceeded(returned)
                     THEN [@ EXCEPT !.pc = "ai_detection", !.ran = Append(@, stage),
                                    !.result = "internet_fact_checker",
                                    !.analysis_method = "internet_fact_checker"]
                     ELSE [@ EXCEPT !.pc = "ai_detection", !.ran = Append(@, stage)]
            ELSE [@ EXCEPT !.pc = "ai_detection"]]
    /\ UNCHANGED <<FAST_FALLBACK, components_loaded, detVars, srvVars, rtrVars, fcVars, instVars, metVars>>

\* AI detection under its timeout, if there is no result yet
AiDetectionStage(r, outcome, duration) ==
    /\ requests[r].pc = "ai_detection"
    /\ requests' = [requests EXCEPT ![r] =
            IF requests[r].result = None /\ components_loaded["ai_detection"]
            THEN LET returned == run_with_timeout(outcome, duration, ai_detection_timeout)
                     stage == [name |-> "ai_detection", duration |-> duration]
                 IN  IF StageSucceeded(returned)
                     THEN [@ EXCEPT !.pc = "fallback", !.ran = Append(@, stage),
                                    !.result = "ai_detection",
                                    !.analysis_method = "ai_detection"]
                     ELSE [@ EXCEPT !.pc = "fallback", !.ran = Append(@, stage)]
            ELSE [@ EXCEPT !.pc = "fallback"]]
    /\ UNCHANGED <<FAST_FALLBACK, components_loaded, detVars, srvVars, rtrVars, fcVars, instVars, metVars>>

\* result = FAST_FALLBACK.copy(); result['real_facts'][0] = ...: the copy is
\* shallow, so the write goes to the list the template holds
UseFallback(r) ==
    /\ requests[r].pc = "fallback"
    /\ IF requests[r].result = None
       THEN /\ requests' = [requests EXCEPT ![r].pc = "respond", ![r].result = "fallback"]
            /\ FAST_FALLBACK' = [FAST_FALLBACK EXCEPT
                                    !.real_facts0 = FastAnalysisOf(requests[r].content)]
       ELSE /\ requests' = [requests EXCEPT ![r].pc = "respond"]
            /\ UNCHANGED FAST_FALLBACK
    /\ UNCHANGED <<components_loaded, detVars, srvVars, rtrVars, fcVars, instVars, metVars>>

\* the processing info and jsonify(result): a fallback result is serialised
\* from the list it shares with the template
FastRespond(r) ==
    /\ requests[r].pc = "respond"
    /\ requests' = [requests EXCEPT ![r] =
            [@ EXCEPT !.pc = "done", !.status = 200,
                      !.real_facts0 = IF requests[r].result = "fallback"
                                      THEN FAST_FALLBACK.real_facts0
                                      ELSE requests[r].result]]
    /\ UNCHANGED <<FAST_FALLBACK, components_loaded, detVars, srvVars, rtrVars, fcVars, instVars, metVars>>

FastNext ==
    \E r \in Requests :
        \/ \E content \in FastContents : FastReceive(r, content)
        \/ \E outcome \in StageOutcomes, duration \in Durations :
                FactCheckerStage(r, outcome, duration)
        \/ \E outcome \in StageOutcomes, duration \in Durations :
                AiDetectionStage(r, outcome, duration)
        \/ UseFallback(r)
        \/ FastRespond(r)

(***************************************************************************)
(* internet_fact_checker.py: _extract_claims on texts whose sentences      *)
(* differ in case and in a leading phrase of the claim patterns.           *)
(***************************************************************************)
ExtractContents ==
    { <<>>,
      <<"The study is proven true today", "THE STUDY IS PROVEN TRUE TODAY">>,
      <<"Breaking the study is proven true today">>,
      <<"Breaking the study is proven true today", "The study is proven true today">>,
      <<"The study is proven true today", "Water on Mars is a proven thing",
        "The evidence of the moon landing">>,
      <<"The study is proven true today", "THE STUDY IS PROVEN TRUE TODAY",
        "Breaking the study is proven true today", "Water on Mars is a proven thing",
        "The evidence of the moon landing">> }

\* the claims list before set(): the captures of the claim patterns on the
\* lower-cased content (the text after 'breaking'), then every sentence
\* with an assertion word, in the case it was written in
RawClaims(content) ==
    LET breaking(sentence) == sentence = "Breaking the study is proven true today"
    IN  [i \in 1..Len(SelectSeq(content, breaking)) |-> "the study is proven true today"]
            \o content

\* _extract_claims(content), under one enumeration order of the set
ExtractClaims(content, order) ==
    /\ order \in SetOrders(RawClaims(content))
    /\ fc' = [op |-> "_extract_claims", content |-> content,
              claims |-> _extract_claims(order)]
    /\ UNCHANGED <<detVars, srvVars, rtrVars, fastVars, instVars, metVars>>

ExtractNext ==
    \E content \in ExtractContents :
        \E order \in SetOrders(RawClaims(content)) : ExtractClaims(content, order)

(***************************************************************************)
(* instant_server.py: instant_ai_analysis and /health, one thread per      *)
(* request.  A content is the pair of its first 100 characters and the     *)
(* rest; the result of an analysis is represented by the content and       *)
(* content type it was computed from.                                      *)
(***************************************************************************)
\* the size above which the cache is cleared (1000 in the code)
CacheLimit == 2

InstantContents ==
    { [head |-> "h1", rest |-> "x"], [head |-> "h1", rest |-> "y"],
      [head |-> "h2", rest |-> "x"], [head |-> "h3", rest |-> "x"] }

\* hash() of a string, on the three heads
Hash(string) ==
    CASE string = "h1" -> 11
      [] string = "h2" -> 22
      [] OTHER -> 33

\* cache_key = f"{content_type}_{hash(content[:100])}"
cache_key(content, content_type) == <<content_type, Hash(content.head)>>

\* the first `with cache_lock` block, and the analysis on a miss
InstantLookup(t, content, content_type) ==
    /\ analyses[t].pc \in {"idle", "done"}
    /\ cache_lock = 0
    /\ analyses' = [analyses EXCEPT ![t] =
            IF cache_key(content, content_type) \in DOMAIN response_cache
            THEN [pc |-> "done", content |-> content, content_type |-> content_type,
                  result |-> response_cache[cache_key(content, content_type)]]
            ELSE [pc |-> "store", content |-> content, content_type |-> content_type,
                  result |-> [content |-> content, content_type |-> content_type]]]
    /\ UNCHANGED <<response_cache, cache_lock, health,
                   detVars, srvVars, rtrVars, fcVars, fastVars, metVars>>

\* the second `with cache_lock` block up to the assignment
InstantStore(t) ==
    /\ analyses[t].pc = "store"
    /\ cache_lock = 0
    /\ cache_lock' = t
    /\ response_cache' =
            (cache_key(analyses[t].content, analyses[t].content_type) :> analyses[t].result)
                @@ response_cache
    /\ analyses' = [analyses EXCEPT ![t].pc = "limit"]
    /\ UNCHANGED <<health, detVars, srvVars, rtrVars, fcVars, fastVars, metVars>>

\* the size test, the clear and the release of the lock
InstantLimit(t) ==
    /\ analyses[t].pc = "limit"
    /\ cache_lock = t
    /\ cache_lock' = 0
    /\ response_cache' =
            IF Cardinality(DOMAIN response_cache) > CacheLimit THEN EmptyMap
            ELSE response_cache
    /\ analyses' = [analyses EXCEPT ![t].pc = "done"]
    /\ UNCHANGED <<health, detVars, srvVars, rtrVars, fcVars, fastVars, metVars>>

\* /health: len(response_cache), read without the lock
health_check ==
    /\ health' = [cache_size |-> Cardinality(DOMAIN response_cache)]
    /\ UNCHANGED <<response_cache, cache_lock, analyses,
                   detVars, srvVars, rtrVars, fcVars, fastVars, metVars>>

InstantNext ==
    \/ \E t \in Requests, content \in InstantContents, content_type \in {"text", "image"} :
            InstantLookup(t, content, content_type)
    \/ \E t \in Requests : InstantStore(t)
    \/ \E t \in Requests : InstantLimit(t)
    \/ health_check

(***************************************************************************)
(* server.py: _inc_metric, called by concurrent request threads.           *)
(***************************************************************************)
MaxIncrements == 4

\* the _inc_metric calls that have returned
RECURSIVE Returned(_)
Returned(n) == IF n = 0 THEN 0 ELSE incs[n].returned + Returned(n - 1)

\* metrics.get(key, 0), evaluated before the assignment
IncRead(t) ==
    /\ incs[t].pc = "idle"
    /\ Returned(MaxRequests) + Cardinality({u \in Requests : incs[u].pc = "read"})
            < MaxIncrements
    /\ incs' = [incs EXCEPT ![t].pc = "read", ![t].value = metrics["provider_calls"]]
    /\ UNCHANGED <<metrics, detVars, srvVars, rtrVars, fcVars, fastVars, instVars>>

\* metrics[key] = <the value read> + n, and _save_metrics
IncWrite(t) ==
    /\ incs[t].pc = "read"
    /\ metrics' = [metrics EXCEPT !["provider_calls"] = incs[t].value + 1]
    /\ incs' = [incs EXCEPT ![t].pc = "idle", ![t].returned = @ + 1]
    /\ UNCHANGED <<detVars, srvVars, rtrVars, fcVars, fastVars, instVars>>

MetricsNext == \E t \in Requests : IncRead(t) \/ IncWrite(t)

(***************************************************************************)
(* Initial state and specifications.                                       *)
(***************************************************************************)
SrvInit ==
    /\ srv = NewRequest
    /\ provider_cache = EmptyMap
    /\ clock = [now |-> 0, advances |-> 0]

RtrInit ==
    /\ rtr = [op |-> "none"]
    /\ keys \in SUBSET KeyProviders
    /\ env = keys

FcInit == fc = [op |-> "none"]

FastInit ==
    /\ FAST_FALLBACK = [real_facts0 |-> TemplateFact]
    /\ requests = [r \in Requests |-> NewFastRequest]

\* response_cache = {}, the lock free, no request in progress
InstantInit ==
    /\ response_cache = EmptyMap
    /\ cache_lock = 0
    /\ analyses = [t \in Requests |-> [pc |-> "idle"]]
    /\ health = [cache_size |-> 0]

MetricsInit ==
    /\ metrics = [key \in {"provider_calls"} |-> 0]
    /\ incs = [t \in Requests |-> [pc |-> "idle", value |-> 0, returned |-> 0]]

Init ==
    /\ DetInit /\ SrvInit /\ RtrInit /\ FcInit /\ FastInit /\ InstantInit /\ MetricsInit
    /\ components_loaded = [c \in Components |-> TRUE]

Spec == Init /\ [][DetNext]_vars

SpecEnhanced == Init /\ [][EnhancedNext]_vars

SpecServer == Init /\ [][SrvNext]_vars

SpecRouter == Init /\ [][RtrNext]_vars

\* The handlers with a provider configured and its credential present, while
\* time passes between and during the requests.
InitCache == Init /\ keys = {"openai"}

SpecCache == InitCache /\ [][CacheNext]_vars

SpecFact == Init /\ [][FcNext]_vars

SpecRank == Init /\ [][RankNext]_vars

SpecExtract == InitCache /\ [][ExtractNext]_vars

SpecInstant == InitCache /\ [][InstantNext]_vars

SpecMetrics == Init /\ [][MetricsNext]_vars

\* load_component_safely can leave either component unloaded
InitFast ==
    /\ DetInit /\ SrvInit /\ RtrInit /\ FcInit /\ FastInit /\ InstantInit /\ MetricsInit
    /\ keys = {}
    /\ components_loaded \in [Components -> BOOLEAN]

SpecFast == InitFast /\ [][FastNext]_vars

\* every request thread is scheduled, and thread.join(timeout) returns
SpecFastLive == SpecFast /\ WF_vars(FastNext)

(***************************************************************************)
(* Claims about the detectors.                                             *)
(***************************************************************************)
DetectorOps ==
    {"analyze_ai_content", "analyze_url", "analyze_image", "analyze_video",
     "analyze_image_enhanced"}

\* C1: a call of analyze_ai_content returns the same result as the first call
\* with the same text returned, whatever operations ran in between.
C1_RepeatedAnalysisEqual ==
    (last.op = "analyze_ai_content" /\ last.text \in DOMAIN firstReturn)
        => last.result = firstReturn[last.text]

\* C7: every detector operation returns ai_probability and confidence
\* within [0, 1] (0..1000 thousandths).
C7_UnitRange ==
    last.op \in DetectorOps
        => /\ last.result.ai_probability \in 0..1000
           /\ last.result.confidence \in 0..1000

\* C7 witness: analyze_url on a page whose text already scores 1.0 and whose
\* URL patterns add their boost.
C7_Witness ==
    /\ last.op = "analyze_url"
    /\ "text" \in DOMAIN last
    /\ Contains(last.result.detection_methods, "url_patterns")
    /\ Len(last.result.detection_methods) = 5
    /\ last.result.ai_probability = 1000

(***************************************************************************)
(* Claims about the /api/analyze handler.                                  *)
(***************************************************************************)
AllTransient(failures) ==
    \A i \in 1..Len(failures) : failures[i] \in TransientErrors

\* C2: a provider whose every attempt fails with a transient error is called
\* exactly max_retries + 1 times before the error is raised, and the heuristic
\* stage answers such a request only after those calls.
C2_TransientCalledMaxRetriesPlusOne ==
    /\ (srv.raised /\ AllTransient(srv.failures))
            => srv.calls = max_retries + 1 /\ Len(srv.failures) = max_retries + 1
    /\ (srv.failures # <<>> /\ AllTransient(srv.failures)
            /\ Contains(srv.stages, "heuristic"))
            => srv.raised /\ srv.calls = max_retries + 1

\* C2 witness: three timeouts, the error raised, the heuristic answered.
C2_Witness ==
    /\ srv.pc = "done"
    /\ srv.raised
    /\ srv.failures = <<"timeout", "timeout", "timeout">>
    /\ srv.calls = 3
    /\ srv.result = [source |-> "heuristic"]
    /\ srv.status = 200

\* C3: a provider call that fails with a non-transient error is the only call
\* of its request: no retry follows it.
C3_PermanentNotRetried ==
    \A i \in 1..Len(srv.failures) :
        srv.failures[i] \in PermanentErrors
            => srv.calls = 1 /\ srv.pc # "attempt"

\* C5: every request with non-empty content ends with a result and status
\* 200, whichever single component failed on the way.
C5_NoErrorResponse ==
    (srv.pc = "done" /\ srv.text # "")
        => srv.status = 200 /\ srv.result # NoResult

\* C13: with prefer = 'local' an /api/analyze request never calls a provider,
\* whether the local model succeeds, fails or is not installed.
C13_LocalNeverCallsProvider ==
    (srv.module = "server" /\ srv.prefer = "local")
        => /\ srv.calls = 0
           /\ ~Contains(srv.stages, "provider")
           /\ srv.pc # "attempt"
           /\ srv.result \notin {[source |-> "provider"], [source |-> "cache"]}

\* C13 witness: a provider is configured with its credential, the local model
\* gave no result, and the heuristic answered without a provider call.
C13_Witness ==
    /\ srv.pc = "done"
    /\ srv.module = "server"
    /\ srv.prefer = "local"
    /\ srv.provider = "openai"
    /\ "openai" \in keys
    /\ srv.stages = <<"local", "heuristic">>
    /\ srv.calls = 0

\* the stage a result comes from; a cached response is the provider's
StageOf(result) ==
    IF result.source = "cache" THEN "provider" ELSE result.source

\* C14: the 'used' field of an /api/analyze result names the stage that
\* produced the result, for every prefer value and every stage failure.
C14_UsedNamesProducer ==
    (srv.module = "server" /\ srv.pc = "done" /\ srv.status = 200)
        => /\ srv.result # NoResult
           /\ srv.used = StageOf(srv.result)

\* C14 witness: the local model and the provider both ran and returned
\* nothing, and the heuristic produced the result.
C14_Witness ==
    /\ srv.pc = "done"
    /\ srv.module = "server"
    /\ srv.stages = <<"local", "provider", "heuristic">>
    /\ srv.failures = <<>>
    /\ srv.used = "heuristic"
    /\ srv.result = [source |-> "heuristic"]

TtlOf(module) == IF module = "server" THEN ttl ELSE fixed_ttl

PreferenceTable(content_type, task) ==
    CASE task = "fact_check" -> <<"anthropic", "openai">>
      [] content_type = "image" -> <<"openai", "gemini">>
      [] task = "summarize" -> <<"gemini", "anthropic">>
      [] OTHER -> <<>>

Without(seq, names) ==
    LET keep(n) == n \notin names IN SelectSeq(seq, keep)

Available(seq) ==
    LET keep(n) == is_available(n) IN SelectSeq(seq, keep)

\* the table's entries, then the other providers in registration order
PreferenceOrder(content_type, task) ==
    PreferenceTable(content_type, task)
        \o Without(Registered, Range(PreferenceTable(content_type, task)))

IsPrefix(a, b) == Len(a) <= Len(b) /\ a = SubSeq(b, 1, Len(a))

\* C4: when no provider answers, analyze_content ends with a locally computed
\* result whose provider_used is null, never with an error-only result.
C4_TotalFallbackIsLocal ==
    (rtr.op = "analyze_content" /\ rtr.served_by = "none")
        => rtr.kind = "local" /\ rtr.provider_used = NoneUsed

\* C8: the provider chosen is the requested one if it is available, otherwise
\* the first available entry of the preference table of the pair, otherwise
\* the first available provider in registration order.
C8_SelectionPolicy ==
    rtr.op # "none"
        => rtr.chosen =
            IF Contains(Registered, rtr.requested) /\ is_available(rtr.requested)
            THEN rtr.requested
            ELSE FirstAvailable(PreferenceOrder(rtr.content_type, rtr.task))

\* C9: the providers called are the selected one and then the remaining
\* available ones in preference order, and the router gives up on providers,
\* for the local fallback, only when all of them have been called.
C9_NextInPreferenceOrder ==
    rtr.op = "analyze_content"
        => LET order == <<rtr.chosen>>
                        \o Without(Available(PreferenceOrder(rtr.content_type, rtr.task)),
                                   {rtr.chosen})
           IN  /\ IsPrefix(rtr.calls, order)
               /\ rtr.served_by = "none" => rtr.calls = order /\ rtr.kind = "local"

\* C10: provider_used is "<name> (fallback)" exactly when a provider other
\* than the selected one produced the response, and the plain name of the
\* selected provider exactly when that provider produced it.
C10_FallbackMarker ==
    rtr.op = "analyze_content"
        => /\ (\E n \in Range(Registered) : rtr.provider_used = FallbackName(n))
                <=> rtr.served_by \notin {"none", rtr.chosen}
           /\ rtr.served_by \notin {"none", rtr.chosen}
                => rtr.provider_used = FallbackName(rtr.served_by)
           /\ rtr.provider_used = PlainName(rtr.chosen) <=> rtr.served_by = rtr.chosen

\* C16: a provider response whose analysis is plain text is converted into a
\* result; it never raises out of analyze_text_with_provider.
C16_PlainTextTolerated ==
    (rtr.op = "analyze_text_with_provider" /\ rtr.kind = "response"
            /\ rtr.shape = "plain_text")
        => rtr.legacy = "result"

\* C11: the availability a request sees, and with it the provider it selects,
\* reflects the credentials present at the time of the request.
C11_AvailabilityPerRequest ==
    rtr.op = "analyze_content"
        => /\ rtr.available \cap KeyProviders = rtr.credentials
           /\ rtr.chosen \in KeyProviders => rtr.chosen \in rtr.credentials

(***************************************************************************)
(* Claims about the fact checker.                                          *)
(***************************************************************************)
Holds(list, claim) ==
    Cardinality({i \in 1..Len(list) : list[i].claim = claim})

\* C6: every claim returned by _extract_claims appears in exactly one of
\* verified_claims and disputed_claims, exactly once, whatever its verdict;
\* a claim whose verdict is None is disputed.
C6_ClaimPartition ==
    fc.op = "fact_check_content"
        => \A c \in Range(fc.claims) :
            /\ Holds(fc.verified_claims, c) + Holds(fc.disputed_claims, c) = 1
            /\ (\E i \in 1..Len(fc.verification_results) :
                    /\ fc.verification_results[i].claim = c
                    /\ fc.verification_results[i].verified = None)
                    => Holds(fc.disputed_claims, c) = 1

\* C6 witness: three claims with the verdicts True, False and None.
C6_Witness ==
    /\ fc.op = "fact_check_content"
    /\ fc.variant = "internet_fact_checker"
    /\ Len(fc.claims) = 3
    /\ Len(fc.verified_claims) = 1
    /\ \E i \in 1..Len(fc.disputed_claims) : fc.disputed_claims[i].verified = None
    /\ \E i \in 1..Len(fc.disputed_claims) : fc.disputed_claims[i].verified = VerdictFalse

\* the first position of an article in a list
Position(list, article) ==
    CHOOSE i \in 1..Len(list) : list[i] = article /\ \A j \in 1..(i - 1) : list[j] # article

\* C17: the ranking is stable and idempotent: the result is in descending
\* relevance_score order, articles of equal score keep their insertion order,
\* and ranking the result again gives the same list.
C17_RankStableIdempotent ==
    fc.op = "_rank_and_deduplicate_articles"
        => /\ \A i, j \in 1..Len(fc.ranked) :
                i < j => /\ fc.ranked[i].relevance_score >= fc.ranked[j].relevance_score
                         /\ fc.ranked[i].relevance_score = fc.ranked[j].relevance_score
                                => Position(fc.articles, fc.ranked[i])
                                        < Position(fc.articles, fc.ranked[j])
           /\ fc.reranked = fc.ranked

\* C17 witness: three articles, one a duplicate by lower-cased title, the two
\* kept ones of equal score.
C17_Witness ==
    /\ fc.op = "_rank_and_deduplicate_articles"
    /\ Len(fc.articles) = 3
    /\ Len(fc.ranked) = 2
    /\ fc.ranked[1].relevance_score = fc.ranked[2].relevance_score
    /\ fc.ranked[1] = fc.articles[1]

\* C18: serving a request leaves the FAST_FALLBACK template unchanged, and a
\* fallback response carries only data derived from its own request's content.
C18_FallbackNotShared ==
    /\ FAST_FALLBACK.real_facts0 = TemplateFact
    /\ \A r \in Requests :
            (requests[r].pc = "done" /\ requests[r].analysis_method = "fallback")
                => requests[r].real_facts0 = FastAnalysisOf(requests[r].content)

\* the stages of a request that were still running at their timeout
TimedOutStages(r) ==
    {requests[r].ran[i].name : i \in
        {j \in 1..Len(requests[r].ran) :
            requests[r].ran[j].duration >
                (IF requests[r].ran[j].name = "internet_fact_checker"
                 THEN fact_checker_timeout ELSE ai_detection_timeout)}}

RanStages(r) == {requests[r].ran[i].name : i \in 1..Len(requests[r].ran)}

C19_Answered(r) ==
    (requests[r].pc = "done" /\ requests[r].content # "")
        => /\ requests[r].status = 200
           /\ requests[r].analysis_method = requests[r].result
           /\ requests[r].result \in {"internet_fact_checker", "ai_detection", "fallback"}
           /\ requests[r].result \notin TimedOutStages(r)
           /\ ("internet_fact_checker" \in TimedOutStages(r)
                    /\ components_loaded["ai_detection"])
                => "ai_detection" \in RanStages(r)
           /\ requests[r].result = "fallback"
                => \A c \in Components : components_loaded[c] =>
                        (IF c = "fact_checker" THEN "internet_fact_checker" ELSE c)
                            \in RanStages(r)

C20_ExponentialBackoff ==
    /\ \A k \in 1..Len(srv.slept) : srv.slept[k] = backoff * (2 ^ (k - 1))
    /\ Len(srv.slept) <= max_retries
    /\ (srv.raised /\ Len(srv.failures) = srv.calls)
            => srv.slept = <<backoff, 2 * backoff>>

\* C20 read on server.py alone
C20_ServerOnly == srv.module = "server" => C20_ExponentialBackoff

NoDuplicates(list) ==
    \A i, j \in 1..Len(list) : i # j => list[i] # list[j]

\* C21: the flags of a result hold each flag at most once, after any sequence
\* of analyses, repeated analyze_url calls on a cached text included.
C21_FlagsDeduplicated ==
    last.op \in DetectorOps => NoDuplicates(last.result.flags)

\* C22: two evaluations of the same image by the enhanced detector yield the
\* same ai_probability, confidence, detection_methods and flags.
C22_SameInputSameResult ==
    last.op = "analyze_image_enhanced_twice"
        => /\ last.second.ai_probability = last.result.ai_probability
           /\ last.second.confidence = last.result.confidence
           /\ last.second.detection_methods = last.result.detection_methods
           /\ last.second.flags = last.result.flags

\* C23: a text or image analysis in which no detector fired reports the
\* confidence floor 0.2, not 0.
C23_ConfidenceFloor ==
    (last.op \in {"analyze_ai_content", "analyze_image", "analyze_image_enhanced"}
        /\ ~last.result.error /\ last.result.detection_methods = <<>>)
        => last.result.confidence = 200

\* C23 read on the enhanced image detector alone
C23_EnhancedOnly == last.op = "analyze_image_enhanced" => C23_ConfidenceFloor

\* weight times confidence of an enhanced detector that fired, else nothing
Contribution(signal, weight) ==
    IF signal.indicates_ai THEN (signal.confidence * weight) \div 1000 ELSE 0

\* C24: the probability the enhanced image detector reports is the sum, over
\* the detectors that fired, of weight times confidence, clamped to [0, 1].
C24_WeightedSumOnly ==
    (last.op = "analyze_image_enhanced_twice" /\ ~last.result.error)
        => last.result.ai_probability =
                Max(0, Min(1000,
                    Contribution(_analyze_metadata_enhanced(last.image), metadata_weight)
                    + Contribution(_analyze_visual_patterns_enhanced(last.image), visual_weight)
                    + Contribution(_analyze_statistical_anomalies(last.image), statistical_weight)
                    + Contribution(_analyze_compression_enhanced(last.image), compression_weight)))

\* C25: _extract_claims returns at most 5 claims, no two of them with the same
\* case-folded text.
C25_ClaimsDistinctNormalized ==
    fc.op = "_extract_claims"
        => /\ Len(fc.claims) <= 5
           /\ \A i, j \in 1..Len(fc.claims) :
                    i # j => Lower(fc.claims[i]) # Lower(fc.claims[j])

\* the part of C25 about the number of claims
C25_AtMostFive == fc.op = "_extract_claims" => Len(fc.claims) <= 5

\* C26: a server.py request that reaches _call_provider_with_retry while a
\* readable cache file for its provider and text is within the TTL answers
\* from that file and calls no provider; a provider call means there was no
\* such file.
C26_FreshEntryNoCall ==
    srv.module = "server"
        => /\ (srv.cache_age # NoAge /\ srv.cache_age <= ttl /\ ~srv.cache_fault)
                => srv.result = [source |-> "cache"] /\ srv.calls = 0
           /\ srv.calls >= 1
                => srv.cache_age = NoAge \/ srv.cache_age > ttl \/ srv.cache_fault

\* C26 witness: a request stored the provider's response; exactly one TTL
\* later a second request for the same provider and text was answered from the
\* file without a call.
C26_Witness ==
    /\ srv.module = "server"
    /\ srv.pc = "done"
    /\ srv.cache_age = ttl
    /\ srv.result = [source |-> "cache"]
    /\ srv.calls = 0
    /\ srv.status = 200

\* C27: every cache entry holds a successful provider response, and the cache
\* changes only in a step in which the provider was called and its response
\* became the request's result: never after a failed attempt, an exhausted
\* retry sequence or a None response.
C27_OnlySuccessCached ==
    /\ [](\A key \in DOMAIN provider_cache : provider_cache[key].source = "provider")
    /\ [][provider_cache' # provider_cache
            => /\ srv'.calls = srv.calls + 1
               /\ srv'.result = [source |-> "provider"]
               /\ ~srv'.raised
               /\ srv'.failures = srv.failures]_vars

\* C27 witness: a retry sequence was exhausted for one text while the cache
\* holds the response stored for another, and nothing for this one.
C27_Witness ==
    /\ srv.pc = "done"
    /\ srv.raised
    /\ DOMAIN provider_cache # {}
    /\ <<srv.module, srv.provider, srv.text>> \notin DOMAIN provider_cache

\* C28: in instant_server a finished analysis holds the result computed for
\* its own content and content type, cache hit or not.
C28_HitIsOwnContent ==
    \A t \in Requests :
        analyses[t].pc = "done"
            => /\ analyses[t].result.content = analyses[t].content
               /\ analyses[t].result.content_type = analyses[t].content_type

\* C29: response_cache never holds more than the limit of entries, neither in
\* a state another thread can see nor in the cache_size /health reported.
C29_CacheBounded ==
    /\ Cardinality(DOMAIN response_cache) <= CacheLimit
    /\ health.cache_size <= CacheLimit

\* C30: when no _inc_metric call is in progress the counter equals the number
\* of calls that returned.
C30_NoLostIncrement ==
    (\A t \in Requests : incs[t].pc = "idle")
        => metrics["provider_calls"] = Returned(MaxRequests)

====
